---- MODULE Spec2Model ----
(***************************************************************************)
(* Model of the ray-tracer-challenge kernel: the pixel Canvas (src/canvas.rs) *)
(* with its PPM encoder, the Color to 8-bit conversion (src/color.rs), and    *)
(* the 4x4 matrix algebra with epsilon equality (src/matrix.rs, src/util.rs). *)
(*                                                                             *)
(* Representation choices:                                                     *)
(*   - usize is a machine word of WORD values (scaled down from 2^64); an      *)
(*     overflowing `+` or `*` panics when the build has overflow checks        *)
(*     (debug profile) and wraps modulo WORD otherwise (release profile).      *)
(*   - f64 values are records [k, n]: k = "num" is the dyadic rational         *)
(*     n / Unit (exactly representable, so is 255 * n / Unit), k = "inf" is    *)
(*     +infinity (n = 1) or -infinity (n = -1), k = "nan" is NaN.  The matrix  *)
(*     algebra uses fractions [k |-> "num", n, d] (see its section).           *)
(*   - a String is the sequence of its (ASCII) characters.                     *)
(*   - an Option is a sequence of length 0 (None) or 1 (Some).                 *)
(***************************************************************************)
EXTENDS Integers, Sequences, FiniteSets, TLC

VARIABLES
    overflow_checks, \* build profile: TRUE = arithmetic overflow panics
    width,           \* Canvas.width
    height,          \* Canvas.height
    pixels,          \* Canvas.pixels, row-major Vec<Color>
    fill,            \* the colour the canvas was constructed with
    nwrites,         \* number of pixels painted before encoding
    pc,              \* control position
    ret,             \* the last get / get_mut call and what it returned
    ppm,             \* ppm(): the output String
    h,               \* ppm(): row loop variable
    colors,          \* ppm(): the row's channel values
    iter,            \* ppm(): position of the peekable iterator in colors
    buf,             \* ppm(): the line buffer
    conv,            \* the last as_tuple call and what it returned
    opa,             \* first operand of the algebra call (self)
    opb,             \* second operand (rhs / other)
    opc,             \* third operand of a chained expression
    call             \* the last algebra call and what it returned

vars == <<overflow_checks, width, height, pixels, fill, nwrites, pc, ret,
          ppm, h, colors, iter, buf, conv, opa, opb, opc, call>>

canvasVars == <<width, height, pixels, fill>>
ppmVars == <<ppm, h, colors, iter, buf>>
algVars == <<opa, opb, opc, call>>

-----------------------------------------------------------------------------
(* Bounds *)

MaxDim == 2        \* largest width / height of the canvases probed by get
MaxPixels == 4     \* most pixels of the canvases probed by get
MaxWidth == 6      \* largest width of the canvases that are encoded
MaxHeight == 2     \* largest height of the canvases that are encoded
MaxWrites == 1     \* pixels painted before a canvas is encoded
MaxChan == 4       \* channel inputs range over -MaxChan/Unit .. 1 + MaxChan/Unit

-----------------------------------------------------------------------------
(* Scalars *)

WORD == 2 ^ 6
USIZE_MAX == WORD - 1

Unit == 2 * 2 * 2

F(n) == [k |-> "num", n |-> n]
NaN == [k |-> "nan", n |-> 0]
PosInf == [k |-> "inf", n |-> 1]
NegInf == [k |-> "inf", n |-> -1]

\* a < b on f64: false as soon as one side is NaN
FLt(a, b) ==
    IF a.k = "nan" \/ b.k = "nan" THEN FALSE
    ELSE IF a.k = "inf" THEN a.n < 0 /\ ~(b.k = "inf" /\ b.n < 0)
    ELSE IF b.k = "inf" THEN b.n > 0
    ELSE a.n < b.n

\* f64::clamp(self, min, max)
clamp(x, min, max) ==
    LET x1 == IF FLt(x, min) THEN min ELSE x
    IN IF FLt(max, x1) THEN max ELSE x1

\* x * 255. for the literal 255.
Mul255(x) == IF x.k = "num" THEN F(x.n * 255) ELSE x

\* f64::round: nearest integer, half-way cases away from zero
round(x) ==
    IF x.k # "num" THEN x
    ELSE IF x.n >= 0 THEN F(((2 * x.n + Unit) \div (2 * Unit)) * Unit)
    ELSE F(-(((2 * (-x.n) + Unit) \div (2 * Unit)) * Unit))

\* `as u8`: saturating, NaN becomes 0, the fraction is dropped
AsU8(x) ==
    IF x.k = "nan" THEN 0
    ELSE IF x.k = "inf" THEN (IF x.n > 0 THEN 255 ELSE 0)
    ELSE IF x.n <= 0 THEN 0
    ELSE IF x.n \div Unit > 255 THEN 255
    ELSE x.n \div Unit

-----------------------------------------------------------------------------
(* Color *)

Color(r, g, b) == [r |-> r, g |-> g, b |-> b]

black == Color(F(0), F(0), F(0))
white == Color(F(Unit), F(Unit), F(Unit))
red == Color(F(Unit), F(0), F(0))

\* one channel of as_tuple (Channel_Truncate: the variant without round)
Channel_Truncate(c) == AsU8(Mul255(clamp(c, F(0), F(Unit))))
Channel(c) == AsU8(round(Mul255(clamp(c, F(0), F(Unit)))))

as_tuple(color) == <<Channel(color.r), Channel(color.g), Channel(color.b)>>

\* the colours a canvas is created with, and those painted on it
FillColors == {black, white}
PaintColors == {Color(F(12), F(4), F(0)),      \* (1.5, 0.5, 0.)
                Color(F(Unit), F(6), F(1))}    \* (1., 0.75, 0.125)

-----------------------------------------------------------------------------
(* Canvas *)

None == <<>>
Some(v) == <<v>>

\* vec![color; n]
VecOf(color, n) == [i \in 1..n |-> color]

\* slice::get(index)
VecGet(v, i) == IF i < Len(v) THEN Some(v[i + 1]) ELSE None

\* Canvas::with_color (Canvas::new is with_color with black), for sizes
\* whose product fits the machine word
with_color(w, hh, color) ==
    /\ w * hh <= USIZE_MAX
    /\ width = w
    /\ height = hh
    /\ pixels = VecOf(color, w * hh)
    /\ fill = color

\* does `x + y * self.width` leave the machine word
Overflows(x, y) ==
    \/ y * width > USIZE_MAX
    \/ x + ((y * width) % WORD) > USIZE_MAX

\* let index = x + y * self.width (wrapping); index_Height: the variant
\* that scales y by the height
index_Height(x, y) == (x + y * height) % WORD
index(x, y) == (x + y * width) % WORD

\* Canvas::get, when the index computation does not panic
get(x, y) == VecGet(pixels, index(x, y))

NoCall ==
    [op |-> "none", x |-> 0, y |-> 0, wrote |-> None, fault |-> FALSE,
     val |-> None]
Call(op, x, y, wrote, fault, val) ==
    [op |-> op, x |-> x, y |-> y, wrote |-> wrote, fault |-> fault,
     val |-> val]

\* canvas.get(x, y)
CallGet(x, y) ==
    /\ pc = "idle"
    /\ IF overflow_checks /\ Overflows(x, y)
       THEN /\ pc' = "panic"
            /\ ret' = Call("get", x, y, None, TRUE, None)
       ELSE /\ pc' = pc
            /\ ret' = Call("get", x, y, None, FALSE, get(x, y))
    /\ UNCHANGED <<overflow_checks, canvasVars, nwrites, ppmVars, conv, algVars>>

\* the pixels after `*pixel = color` through the reference get_mut returned
Assigned(x, y, color) == [pixels EXCEPT ![index(x, y) + 1] = color]

\* if let Some(pixel) = canvas.get_mut(x, y) { *pixel = color }
CallGetMut(x, y, color) ==
    /\ pc = "idle"
    /\ IF overflow_checks /\ Overflows(x, y)
       THEN /\ pc' = "panic"
            /\ ret' = Call("get_mut", x, y, Some(color), TRUE, None)
            /\ pixels' = pixels
       ELSE /\ pc' = pc
            /\ ret' = Call("get_mut", x, y, Some(color), FALSE, get(x, y))
            /\ pixels' = IF get(x, y) = None THEN pixels
                          ELSE Assigned(x, y, color)
    /\ UNCHANGED <<overflow_checks, width, height, fill, nwrites, ppmVars, conv, algVars>>

NoConv == [called |-> FALSE, color |-> black, bytes |-> <<0, 0, 0>>]

IdleRest ==
    /\ nwrites = 0
    /\ pc = "idle"
    /\ ret = NoCall
    /\ ppm = <<>>
    /\ h = 0
    /\ colors = <<>>
    /\ iter = 0
    /\ buf = <<>>
    /\ conv = NoConv
    /\ opa = <<>>
    /\ opb = <<>>
    /\ opc = <<>>
    /\ call = [op |-> "none"]

\* coordinates handed to get / get_mut: in the grid, just outside it, and at
\* the top of the machine word
Coords == (0..MaxDim) \cup {USIZE_MAX}

CanvasColors == {black, red}

InitCanvas ==
    /\ overflow_checks \in BOOLEAN
    /\ \E w \in 0..MaxDim, hh \in 0..MaxDim, color \in CanvasColors :
          w * hh <= MaxPixels /\ with_color(w, hh, color)
    /\ IdleRest

NextCanvas ==
    \/ \E x \in Coords, y \in Coords : CallGet(x, y)
    \/ \E x \in Coords, y \in Coords, color \in CanvasColors :
          CallGetMut(x, y, color)

SpecCanvas == InitCanvas /\ [][NextCanvas]_vars

-----------------------------------------------------------------------------
(* Canvas::ppm *)

DigitChars == <<"0", "1", "2", "3", "4", "5", "6", "7", "8", "9">>

\* Display of an unsigned integer: its decimal digits
RECURSIVE Digits(_)
Digits(n) ==
    IF n < 10 THEN <<DigitChars[n + 1]>>
    ELSE Digits(n \div 10) \o <<DigitChars[(n % 10) + 1]>>

IsSpace(c) == c \in {" ", "\n"}

\* str::trim: leading and trailing whitespace removed
RECURSIVE TrimStart(_)
TrimStart(s) ==
    IF s # <<>> /\ IsSpace(Head(s)) THEN TrimStart(Tail(s)) ELSE s
RECURSIVE TrimEnd(_)
TrimEnd(s) ==
    IF s # <<>> /\ IsSpace(s[Len(s)]) THEN TrimEnd(SubSeq(s, 1, Len(s) - 1))
    ELSE s
trim(s) == TrimStart(TrimEnd(s))

LineLimit == 70

\* the three writeln! of the header (Header_Swapped: the variant that
\* writes the height first)
Header_Swapped ==
    <<"P", "3", "\n">> \o Digits(height) \o <<" ">> \o Digits(width) \o <<"\n">>
        \o <<"2", "5", "5", "\n">>
Header ==
    <<"P", "3", "\n">> \o Digits(width) \o <<" ">> \o Digits(height) \o <<"\n">>
        \o <<"2", "5", "5", "\n">>

\* does some self.get(w, h) of row hh panic, in the index computation or in
\* the unwrap of None
RowPanics(hh) ==
    \E w \in 0..(width - 1) :
        \/ overflow_checks /\ Overflows(w, hh)
        \/ get(w, hh) = None

\* colors after the inner loop over w: (r, g, b) of every pixel of row hh
\* (RowColors_RightToLeft: the variant that walks the row backwards)
RowColors_RightToLeft(hh) ==
    [i \in 1..(3 * width) |->
        as_tuple(get(width - 1 - ((i - 1) \div 3), hh)[1])[((i - 1) % 3) + 1]]
RowColors(hh) ==
    [i \in 1..(3 * width) |->
        as_tuple(get((i - 1) \div 3, hh)[1])[((i - 1) % 3) + 1]]

\* a test paints a pixel: *canvas.get_mut(x, y).unwrap() = color
Paint(x, y, color) ==
    /\ pc = "idle"
    /\ nwrites < MaxWrites
    /\ get(x, y) # None
    /\ pixels' = Assigned(x, y, color)
    /\ nwrites' = nwrites + 1
    /\ UNCHANGED <<overflow_checks, width, height, fill, pc, ret, ppmVars, conv, algVars>>

\* ppm(): String::new() and the header
PpmStart ==
    /\ pc = "idle"
    /\ pc' = "row"
    /\ ppm' = Header
    /\ h' = 0
    /\ UNCHANGED <<overflow_checks, canvasVars, nwrites, ret, colors, iter, buf, conv, algVars>>

\* for h in 0..self.height: collect the row, fresh iterator and line buffer
PpmRow ==
    /\ pc = "row"
    /\ h < height
    /\ IF RowPanics(h)
       THEN /\ pc' = "panic"
            /\ UNCHANGED <<colors, iter, buf>>
       ELSE /\ pc' = "token"
            /\ colors' = RowColors(h)
            /\ iter' = 0
            /\ buf' = <<>>
    /\ UNCHANGED <<overflow_checks, canvasVars, nwrites, ret, ppm, h, conv, algVars>>

\* the line buffer after one iteration of the while let loop
\* write!(buf, "{}", value); if buf.len() >= 70 (Wraps_Gt: the variant
\* with > in place of >=)
Wraps_Gt(value) == Len(buf \o Digits(value)) > LineLimit
Wraps(value) == Len(buf \o Digits(value)) >= LineLimit

TokenBuf(value, more) ==
    LET kept == IF Wraps(value) THEN Digits(value) ELSE buf \o Digits(value)
    IN IF more THEN kept \o <<" ">> ELSE kept

\* what one iteration writes to ppm: &buf[..len].trim() and a newline when
\* the line wraps (TokenOut_WithToken: the variant that flushes all of buf)
TokenOut_WithToken(value) ==
    IF Wraps(value) THEN trim(buf \o Digits(value)) \o <<"\n">> ELSE <<>>
TokenOut(value) ==
    LET len == Len(buf)
    IN IF Wraps(value)
       THEN trim(SubSeq(buf \o Digits(value), 1, len)) \o <<"\n">>
       ELSE <<>>

\* while let Some(value) = iter.next()
PpmToken ==
    /\ pc = "token"
    /\ iter < Len(colors)
    /\ iter' = iter + 1
    /\ buf' = TokenBuf(colors[iter + 1], iter + 1 < Len(colors))
    /\ ppm' = ppm \o TokenOut(colors[iter + 1])
    /\ UNCHANGED <<overflow_checks, canvasVars, nwrites, pc, ret, h, colors, conv, algVars>>

\* what the end of a row writes to ppm (RowFlush_Never: the variant without
\* the final flush; RowFlush_NoNewline: the variant with write! for writeln!)
RowFlush_Never == <<>>
RowFlush_NoNewline == buf
RowFlush == IF buf # <<>> THEN buf \o <<"\n">> ELSE <<>>

\* the iterator is exhausted: flush the partial line, next row
PpmRowEnd ==
    /\ pc = "token"
    /\ iter = Len(colors)
    /\ ppm' = ppm \o RowFlush
    /\ buf' = <<>>
    /\ h' = h + 1
    /\ pc' = "row"
    /\ UNCHANGED <<overflow_checks, canvasVars, nwrites, ret, colors, iter, conv, algVars>>

\* the row loop is over: ppm is returned
PpmReturn ==
    /\ pc = "row"
    /\ h = height
    /\ pc' = "done"
    /\ UNCHANGED <<overflow_checks, canvasVars, nwrites, ret, ppmVars, conv, algVars>>

\* the sizes of the canvases that are encoded
PpmDims ==
    ((0..MaxWidth) \X (0..MaxHeight))
        \cup {<<USIZE_MAX, 0>>, <<0, USIZE_MAX>>}

InitPpm ==
    /\ overflow_checks \in BOOLEAN
    /\ \E d \in PpmDims, color \in FillColors :
          with_color(d[1], d[2], color)
    /\ IdleRest

NextPpm ==
    \/ \E x \in 0..(width - 1), y \in 0..(height - 1), color \in PaintColors :
          Paint(x, y, color)
    \/ PpmStart
    \/ PpmRow
    \/ PpmToken
    \/ PpmRowEnd
    \/ PpmReturn

SpecPpm == InitPpm /\ [][NextPpm]_vars

-----------------------------------------------------------------------------
(* Color::as_tuple on its own *)

ChannelInputs ==
    {F(n) : n \in (-MaxChan)..(Unit + MaxChan)} \cup {NaN, PosInf, NegInf}

\* let bytes = color.as_tuple() for the colour at hand
CallAsTuple ==
    /\ pc = "idle"
    /\ ~conv.called
    /\ conv' = [conv EXCEPT !.called = TRUE, !.bytes = as_tuple(conv.color)]
    /\ UNCHANGED <<overflow_checks, canvasVars, nwrites, pc, ret, ppmVars, algVars>>

InitColor ==
    /\ overflow_checks = FALSE
    /\ with_color(0, 0, black)
    /\ nwrites = 0
    /\ pc = "idle"
    /\ ret = NoCall
    /\ ppm = <<>>
    /\ h = 0
    /\ colors = <<>>
    /\ iter = 0
    /\ buf = <<>>
    /\ opa = <<>>
    /\ opb = <<>>
    /\ opc = <<>>
    /\ call = [op |-> "none"]
    /\ \E r \in ChannelInputs, g \in ChannelInputs, b \in ChannelInputs :
          conv = [called |-> FALSE, color |-> Color(r, g, b),
                  bytes |-> <<0, 0, 0>>]

NextColor == CallAsTuple

SpecColor == InitColor /\ [][NextColor]_vars

-----------------------------------------------------------------------------
(* Helpers of the properties *)

InGrid(x, y) == x < width /\ y < height

IsCall == ret.op \in {"get", "get_mut"}

\* s[lo..hi] cut at every character of seps: the pieces between them, empty
\* ones included (one more piece than there are separators)
RECURSIVE Pieces(_, _, _, _)
Pieces(s, lo, hi, seps) ==
    IF lo > hi THEN <<<<>>>>
    ELSE IF lo = hi THEN (IF s[lo] \in seps THEN <<<<>>, <<>>>> ELSE <<<<s[lo]>>>>)
    ELSE LET mid == (lo + hi) \div 2
             l == Pieces(s, lo, mid, seps)
             r == Pieces(s, mid + 1, hi, seps)
         IN SubSeq(l, 1, Len(l) - 1) \o <<l[Len(l)] \o r[1]>> \o Tail(r)

\* the newline-terminated lines of s, and what follows the last newline
Lines(s) ==
    LET p == Pieces(s, 1, Len(s), {"\n"}) IN SubSeq(p, 1, Len(p) - 1)
Unterminated(s) ==
    LET p == Pieces(s, 1, Len(s), {"\n"}) IN p[Len(p)]

\* the maximal whitespace-free pieces of s, in order
Words(s) == SelectSeq(Pieces(s, 1, Len(s), {" ", "\n"}), LAMBDA w : w # <<>>)

IsDigit(c) == \E v \in 1..10 : DigitChars[v] = c
DigitVal(c) == (CHOOSE v \in 1..10 : DigitChars[v] = c) - 1
IsNumber(w) == w # <<>> /\ \A i \in 1..Len(w) : IsDigit(w[i])
RECURSIVE ParseInt(_)
ParseInt(w) ==
    IF w = <<>> THEN 0
    ELSE 10 * ParseInt(SubSeq(w, 1, Len(w) - 1)) + DigitVal(w[Len(w)])

\* the integers read from the output after its four header words
BodyValues(s) ==
    LET ws == Words(s)
    IN [i \in 1..(Len(ws) - 4) |->
           IF IsNumber(ws[i + 4]) THEN ParseInt(ws[i + 4]) ELSE -1]

\* the 8-bit values of the first nrows rows: row-major, red, green, blue
PixelValue(i) ==
    LET color == pixels[((i - 1) \div 3) + 1]
        k == (i - 1) % 3
    IN IF k = 0 THEN Channel(color.r)
       ELSE IF k = 1 THEN Channel(color.g)
       ELSE Channel(color.b)
RowMajorValues(nrows) == [i \in 1..(3 * width * nrows) |-> PixelValue(i)]

-----------------------------------------------------------------------------
(* Properties *)

\* C1: a get / get_mut call that returns, made with x >= width or
\* y >= height, returns None.
C1_OutOfGridIsNone ==
    (IsCall /\ ~ret.fault /\ ~InGrid(ret.x, ret.y)) => ret.val = None

\* C2: no get / get_mut call faults, whatever the machine-word coordinates.
C2_NeverFaults == IsCall => ~ret.fault

\* C3: a canvas starts with every in-grid pixel reading the fill colour; a
\* write through get_mut at an in-grid (x, y) makes get(x, y) return the
\* colour written and leaves every other in-grid pixel as it was; a get
\* changes no pixel; no call changes width or height.
C3_WriteFrame ==
    /\ \A x \in 0..(width - 1), y \in 0..(height - 1) : get(x, y) = Some(fill)
    /\ [][/\ width' = width
          /\ height' = height
          /\ ret'.op = "get" => pixels' = pixels
          /\ (ret'.op = "get_mut" /\ InGrid(ret'.x, ret'.y)) =>
                /\ ~ret'.fault
                /\ \A x \in 0..(width - 1), y \in 0..(height - 1) :
                      get(x, y)' = IF <<x, y>> = <<ret'.x, ret'.y>>
                                   THEN ret'.wrote
                                   ELSE get(x, y)]_vars

C3_Witness ==
    /\ ret.op = "get_mut"
    /\ InGrid(ret.x, ret.y)
    /\ ret.wrote # Some(fill)
    /\ get(ret.x, ret.y) = ret.wrote
    /\ \E x \in 0..(width - 1), y \in 0..(height - 1) :
          /\ <<x, y>> # <<ret.x, ret.y>>
          /\ get(x, y) = Some(fill)
    /\ \E x \in 0..(width - 1), y \in 0..(height - 1) :
          /\ <<x, y>> # <<ret.x, ret.y>>
          /\ get(x, y) # Some(fill)

\* C4: within a row, a token starts a new output line exactly when the
\* current line plus a space plus the token would be 70 or more characters
\* long; the line flushed is the current line, without trailing whitespace;
\* otherwise the token joins the current line after a single space (the
\* first token of a row starts the row's first line).
C4_WrapRule ==
    [][(pc = "token" /\ iter < Len(colors)) =>
        LET line == TrimEnd(buf)
            token == Digits(colors[iter + 1])
        IN IF Len(line) + 1 + Len(token) >= 70
           THEN /\ ppm' = ppm \o line \o <<"\n">>
                /\ ~IsSpace(ppm'[Len(ppm') - 1])
                /\ TrimEnd(buf') = token
           ELSE /\ ppm' = ppm
                /\ TrimEnd(buf') = IF line = <<>> THEN token
                                    ELSE line \o <<" ">> \o token]_vars

\* a row is being encoded: its tokens joined the current line up to 67
\* characters, and the next one, which would have made 70, started a new line
C4_Witness ==
    /\ pc = "token"
    /\ h = 0
    /\ Len(ppm) > Len(Header)
    /\ LET ls == Lines(ppm)
       IN Len(ls) = 4 /\ Len(ls[4]) = 67

\* C5: no line of the returned output is 70 or more characters long.
C5_LinesBelow70 ==
    pc = "done" =>
        LET p == Pieces(ppm, 1, Len(ppm), {"\n"})
        IN \A i \in 1..Len(p) : Len(p[i]) < 70

\* an output with a row wrapped after a line of 69 characters
C5_Witness ==
    /\ pc = "done"
    /\ LET ls == Lines(ppm)
       IN /\ Len(ls) > 3 + height
          /\ \E i \in 1..Len(ls) : Len(ls[i]) = 69

\* C6: whenever a row is about to start (and when the last row is over) the
\* output ends with a newline and holds exactly the values of the rows
\* before it: every row begins on a new line, no line holds values of two
\* rows, and the partial last line of a row is emitted.
C6_RowScoped ==
    pc = "row" =>
        /\ ppm[Len(ppm)] = "\n"
        /\ BodyValues(ppm) = RowMajorValues(h)

\* two rows were encoded, each wrapped once and ended in a short line
C6_Witness ==
    /\ pc = "row"
    /\ h = 2
    /\ LET ls == Lines(ppm)
       IN /\ Len(ls) = 3 + 4
          /\ Len(ls[5]) < 20
          /\ Len(ls[7]) < 20

\* C7: the integers after the header are the 3 * width * height channel
\* values of the pixels in row-major order, red then green then blue.
C7_RowMajorValues ==
    pc = "done" =>
        LET values == BodyValues(ppm)
        IN /\ Len(values) = 3 * width * height
           /\ values = RowMajorValues(height)

\* a returned output of a canvas of two rows with a painted pixel
C7_Witness ==
    /\ pc = "done"
    /\ height = 2
    /\ width > 1
    /\ nwrites = 1
    /\ \E i \in 1..Len(pixels) : pixels[i] # fill /\ as_tuple(pixels[i]) # as_tuple(fill)

\* C8: the output begins with the lines "P3", "<width> <height>" in decimal
\* with one space between, and "255".
C8_Header ==
    pc = "done" =>
        LET ls == Lines(ppm)
            ws == Words(ls[2])
        IN /\ Len(ls) >= 3
           /\ ls[1] = <<"P", "3">>
           /\ Len(ws) = 2
           /\ Len(ls[2]) = Len(ws[1]) + 1 + Len(ws[2])
           /\ IsNumber(ws[1]) /\ ParseInt(ws[1]) = width
           /\ IsNumber(ws[2]) /\ ParseInt(ws[2]) = height
           /\ \A i \in 1..2 : Len(ws[i]) > 1 => ws[i][1] # "0"
           /\ ls[3] = <<"2", "5", "5">>

\* the output of a canvas without pixels whose width has two digits
C8_Witness == pc = "done" /\ width >= 10 /\ height = 0 /\ Len(Lines(ppm)) = 3

\* C9: the output ends with a newline, and no line of it is terminated by
\* more than one newline.
C9_NewlineTerminated ==
    pc = "done" =>
        /\ ppm[Len(ppm)] = "\n"
        /\ Unterminated(ppm) = <<>>
        /\ \A i \in 1..(Len(ppm) - 1) : ~(ppm[i] = "\n" /\ ppm[i + 1] = "\n")

\* a returned output of several rows, each wrapped
C9_Witness ==
    /\ pc = "done"
    /\ width > 0
    /\ height > 1
    /\ Len(Lines(ppm)) > 3 + height

\* min(1, max(0, c)) in units of 1 / Unit (f64::max and f64::min return the
\* other operand when one is NaN)
Clamped01(c) ==
    IF c.k = "nan" THEN 0
    ELSE IF c.k = "inf" THEN (IF c.n > 0 THEN Unit ELSE 0)
    ELSE IF c.n < 0 THEN 0
    ELSE IF c.n > Unit THEN Unit
    ELSE c.n

\* v is x = m / Unit rounded to the nearest integer, ties away from zero
\* (x >= 0): x - 1/2 < v <= x + 1/2
IsRoundHalfAway(v, m) ==
    /\ 2 * (v * Unit - m) <= Unit
    /\ 2 * (m - v * Unit) < Unit

ChannelOk(c, v) ==
    /\ v \in 0..255
    /\ IsRoundHalfAway(v, 255 * Clamped01(c))
    /\ (c.k = "num" /\ c.n <= 0) => v = 0
    /\ (c.k = "num" /\ c.n >= Unit) => v = 255
    /\ c = F(Unit \div 2) => v = 128

\* C10: as_tuple maps each channel c to round-half-away-from-zero of
\* 255 * min(1, max(0, c)): 0 for c <= 0, 255 for c >= 1, 128 for 0.5, and
\* always within 0..255.
C10_ClampRound ==
    conv.called =>
        /\ ChannelOk(conv.color.r, conv.bytes[1])
        /\ ChannelOk(conv.color.g, conv.bytes[2])
        /\ ChannelOk(conv.color.b, conv.bytes[3])

\* Color(1.5, 0.5, -0.5).as_tuple() = (255, 128, 0)
C10_Witness ==
    /\ conv.called
    /\ conv.color = Color(F(Unit + MaxChan), F(Unit \div 2), F(-MaxChan))
    /\ conv.bytes = <<255, 128, 0>>

-----------------------------------------------------------------------------
(* f64 arithmetic of the matrix algebra (src/matrix.rs, src/util.rs)        *)
(*                                                                          *)
(* A finite f64 of the algebra is the record [k |-> "num", n, d], the       *)
(* fraction n / d in lowest terms with d > 0; NaN, PosInf and NegInf are as *)
(* above.  The finite range is scaled down: a result larger in magnitude    *)
(* than F64_MAX overflows to the infinity of its sign, as f64 arithmetic    *)
(* does beyond f64::MAX.  Inside the range the arithmetic is exact:         *)
(* rounding to 53 bits and the sign of zero are not represented (x / 0 is   *)
(* taken with +0).                                                          *)

F64_MAX == 2 ^ 16

Abs(x) == IF x < 0 THEN -x ELSE x
Sign(x) == IF x < 0 THEN -1 ELSE 1

RECURSIVE gcd(_, _)
gcd(x, y) == IF y = 0 THEN x ELSE gcd(y, x % y)

\* the f64 nearest to n / d (d > 0)
Q(n, d) ==
    LET g == gcd(Abs(n), d)
        nn == Abs(n) \div g
        dd == d \div g
    IN  IF nn \div dd > F64_MAX \/ (nn \div dd = F64_MAX /\ nn % dd # 0)
        THEN [k |-> "inf", n |-> Sign(n)]
        ELSE [k |-> "num", n |-> Sign(n) * nn, d |-> dd]

\* the f64 literal of an integer
Z(n) == Q(n, 1)

IsZero(x) == x.k = "num" /\ x.n = 0

\* unary minus
FNeg(x) == IF x.k = "nan" THEN x ELSE [x EXCEPT !.n = -x.n]

\* x + y
FAdd(x, y) ==
    IF x.k = "nan" \/ y.k = "nan" THEN NaN
    ELSE IF x.k = "inf" /\ y.k = "inf" THEN (IF x.n = y.n THEN x ELSE NaN)
    ELSE IF x.k = "inf" THEN x
    ELSE IF y.k = "inf" THEN y
    ELSE LET l == (x.d \div gcd(x.d, y.d)) * y.d
         IN  Q(x.n * (l \div x.d) + y.n * (l \div y.d), l)

\* x - y
FSub(x, y) == FAdd(x, FNeg(y))

\* x * y
FMul(x, y) ==
    IF x.k = "nan" \/ y.k = "nan" THEN NaN
    ELSE IF x.k = "inf" \/ y.k = "inf"
         THEN IF IsZero(x) \/ IsZero(y) THEN NaN
              ELSE [k |-> "inf", n |-> Sign(x.n) * Sign(y.n)]
    ELSE LET g1 == gcd(Abs(x.n), y.d)
             g2 == gcd(Abs(y.n), x.d)
         IN  Q((x.n \div g1) * (y.n \div g2), (x.d \div g2) * (y.d \div g1))

\* x / y
FDiv(x, y) ==
    IF x.k = "nan" \/ y.k = "nan" THEN NaN
    ELSE IF x.k = "inf"
         THEN IF y.k = "inf" THEN NaN
              ELSE [k |-> "inf", n |-> Sign(x.n) * Sign(y.n)]
    ELSE IF y.k = "inf" THEN Z(0)
    ELSE IF y.n = 0
         THEN IF x.n = 0 THEN NaN ELSE [k |-> "inf", n |-> Sign(x.n)]
    ELSE FMul(x, [k |-> "num", n |-> Sign(y.n) * y.d, d |-> Abs(y.n)])

\* f64::abs
FAbs(x) == IF x.k = "nan" THEN x ELSE [x EXCEPT !.n = Abs(x.n)]

\* floor of a finite f64
Floor(x) == IF x.n >= 0 THEN x.n \div x.d ELSE -((-x.n + x.d - 1) \div x.d)

\* a / b <= c / e for fractions in [0, 1), compared through their
\* reciprocals so that no product is formed
RECURSIVE FracLe(_, _, _, _)
FracLe(a, b, c, e) ==
    IF a = 0 THEN TRUE
    ELSE IF c = 0 THEN FALSE
    ELSE IF e \div c # b \div a THEN e \div c < b \div a
    ELSE FracLe(e % c, c, b % a, a)

\* x <= y: false as soon as one side is NaN
FLe(x, y) ==
    IF x.k = "nan" \/ y.k = "nan" THEN FALSE
    ELSE IF x.k = "inf" THEN x.n < 0 \/ (y.k = "inf" /\ y.n > 0)
    ELSE IF y.k = "inf" THEN y.n > 0
    ELSE IF Floor(x) # Floor(y) THEN Floor(x) < Floor(y)
    ELSE FracLe(x.n - Floor(x) * x.d, x.d, y.n - Floor(y) * y.d, y.d)

\* x != y
FNe(x, y) == x.k = "nan" \/ y.k = "nan" \/ x # y

IsFinite(x) == x.k = "num"

\* <f64 as Num>::EPSILON, the literal 1.0e-5 taken as the decimal fraction
EPSILON == Q(1, 100000)

\* util::float_eq
float_eq_Strict(left, right) ==
    FLe(FAbs(FSub(left, right)), EPSILON) /\ FAbs(FSub(left, right)) # EPSILON
float_eq(left, right) == FLe(FAbs(FSub(left, right)), EPSILON)

-----------------------------------------------------------------------------
(* Matrix (src/matrix.rs): a Matrix is its `elements` array, a function on  *)
(* 0..15 in row-major order; the 3x3 and 2x2 arrays are functions on 0..8   *)
(* and 0..3.                                                                *)

\* Matrix::new on integer literals given as a sequence
Ints(seq) == [i \in 0..(Len(seq) - 1) |-> Z(seq[i + 1])]

IDENTITY == Ints(<<1, 0, 0, 0,  0, 1, 0, 0,  0, 0, 1, 0,  0, 0, 0, 1>>)
\* Matrix::identity (identity_Default: the all-zero Matrix::default())
identity_Default == [i \in 0..15 |-> Z(0)]
identity == IDENTITY

\* the positions of an n x n array that the filters on r and c let through,
\* in iteration order
Kept(n, row, col) ==
    SelectSeq([i \in 1..(n * n) |-> i - 1],
              LAMBDA i : i \div n # row /\ i % n # col)

det2(matrix) ==
    FSub(FMul(matrix[0], matrix[3]), FMul(matrix[2], matrix[1]))

submat3(matrix, row, col) ==
    [i \in 0..3 |-> matrix[Kept(3, row, col)[i + 1]]]

minor3(matrix, row, col) == det2(submat3(matrix, row, col))

cofactor3_NoSign(matrix, row, col) == minor3(matrix, row, col)
cofactor3(matrix, row, col) ==
    IF (row + col) % 2 = 1 THEN FNeg(minor3(matrix, row, col))
    ELSE minor3(matrix, row, col)

det3(matrix) ==
    FAdd(FAdd(FAdd(Z(0), FMul(matrix[0], cofactor3(matrix, 0, 0))),
              FMul(matrix[1], cofactor3(matrix, 0, 1))),
         FMul(matrix[2], cofactor3(matrix, 0, 2)))

submat4(matrix, row, col) ==
    [i \in 0..8 |-> matrix[Kept(4, row, col)[i + 1]]]

minor4(matrix, row, col) == det3(submat4(matrix, row, col))

cofactor4(matrix, row, col) ==
    IF (row + col) % 2 = 1 THEN FNeg(minor4(matrix, row, col))
    ELSE minor4(matrix, row, col)

det4(matrix) ==
    FAdd(FAdd(FAdd(FAdd(Z(0), FMul(matrix[0], cofactor4(matrix, 0, 0))),
                   FMul(matrix[1], cofactor4(matrix, 0, 1))),
              FMul(matrix[2], cofactor4(matrix, 0, 2))),
         FMul(matrix[3], cofactor4(matrix, 0, 3)))

determinant(self) == det4(self)

is_invertible(self) == FNe(determinant(self), Z(0))

\* inverse[col * 4 + row] = cofactor4(matrix, row, col) / determinant
inv(matrix) ==
    LET det == det4(matrix)
    IN  [i \in 0..15 |-> FDiv(cofactor4(matrix, i % 4, i \div 4), det)]

inverse(self) == inv(self)

\* <Matrix as PartialEq>::eq
MatrixEq(self, other) == \A i \in 0..15 : float_eq(self[i], other[i])

\* Matrix::get / Matrix::get_mut: the two assertions, then the element
MatrixFaults_Index(row, col) == ~(row * 4 + col < 16)
MatrixFaults(row, col) == ~(row < 4) \/ ~(col < 4)
MatrixIndex(row, col) == row * 4 + col
MatrixGet(self, row, col) == self[MatrixIndex(row, col)]

\* Point::new / Vector::new
Tuple(x, y, z) == [x |-> x, y |-> y, z |-> z]

\* <Point as PartialEq>::eq, <Vector as PartialEq>::eq
TupleEq(self, other) ==
    float_eq(self.x, other.x) /\ float_eq(self.y, other.y)
        /\ float_eq(self.z, other.z)

\* <Color as PartialEq>::eq
ColorEq(self, other) ==
    float_eq(self.r, other.r) /\ float_eq(self.g, other.g)
        /\ float_eq(self.b, other.b)

\* <Matrix as Mul>::mul
MatrixMul_Elementwise(self, rhs) == [i \in 0..15 |-> FMul(self[i], rhs[i])]
MatrixMul_Swapped(self, rhs) ==
    [i \in 0..15 |->
        FAdd(FAdd(FAdd(FMul(MatrixGet(rhs, i \div 4, 0), MatrixGet(self, 0, i % 4)),
                       FMul(MatrixGet(rhs, i \div 4, 1), MatrixGet(self, 1, i % 4))),
                  FMul(MatrixGet(rhs, i \div 4, 2), MatrixGet(self, 2, i % 4))),
             FMul(MatrixGet(rhs, i \div 4, 3), MatrixGet(self, 3, i % 4)))]
MatrixMul(self, rhs) ==
    [i \in 0..15 |->
        FAdd(FAdd(FAdd(FMul(MatrixGet(self, i \div 4, 0), MatrixGet(rhs, 0, i % 4)),
                       FMul(MatrixGet(self, i \div 4, 1), MatrixGet(rhs, 1, i % 4))),
                  FMul(MatrixGet(self, i \div 4, 2), MatrixGet(rhs, 2, i % 4))),
             FMul(MatrixGet(self, i \div 4, 3), MatrixGet(rhs, 3, i % 4)))]

\* one component of <Matrix as Mul<Vector>>::mul
VectorRow_Affine(self, row, rhs) ==
    FAdd(FAdd(FAdd(FMul(MatrixGet(self, row, 0), rhs.x),
                   FMul(MatrixGet(self, row, 1), rhs.y)),
              FMul(MatrixGet(self, row, 2), rhs.z)),
         MatrixGet(self, row, 3))
VectorRow(self, row, rhs) ==
    FAdd(FAdd(FMul(MatrixGet(self, row, 0), rhs.x),
              FMul(MatrixGet(self, row, 1), rhs.y)),
         FMul(MatrixGet(self, row, 2), rhs.z))

\* <Matrix as Mul<Vector>>::mul
MatrixMulVector(self, rhs) ==
    Tuple(VectorRow(self, 0, rhs), VectorRow(self, 1, rhs),
          VectorRow(self, 2, rhs))

\* one component of <Matrix as Mul<Point>>::mul
PointRow_Linear(self, row, rhs) ==
    FAdd(FAdd(FMul(MatrixGet(self, row, 0), rhs.x),
              FMul(MatrixGet(self, row, 1), rhs.y)),
         FMul(MatrixGet(self, row, 2), rhs.z))
PointRow(self, row, rhs) ==
    FAdd(FAdd(FAdd(FMul(MatrixGet(self, row, 0), rhs.x),
                   FMul(MatrixGet(self, row, 1), rhs.y)),
              FMul(MatrixGet(self, row, 2), rhs.z)),
         MatrixGet(self, row, 3))

\* <Matrix as Mul<Point>>::mul
MatrixMulPoint(self, rhs) ==
    Tuple(PointRow(self, 0, rhs), PointRow(self, 1, rhs),
          PointRow(self, 2, rhs))

-----------------------------------------------------------------------------
(* Determinant and inverse: the calls a program makes on one matrix         *)

MaxEntry == 2      \* varied matrix elements range over -MaxEntry..MaxEntry

\* the canvas, encoder and colour conversion at rest
IdleKernel ==
    /\ overflow_checks = FALSE
    /\ with_color(0, 0, black)
    /\ nwrites = 0
    /\ pc = "idle"
    /\ ret = NoCall
    /\ ppm = <<>>
    /\ h = 0
    /\ colors = <<>>
    /\ iter = 0
    /\ buf = <<>>
    /\ conv = NoConv

kernelVars == <<overflow_checks, canvasVars, nwrites, pc, ret, ppmVars, conv>>

\* the matrices of tests::det4, tests::is_invertible, tests::inverse_mul and
\* tests::inverse_product_mul
DetExample ==
    Ints(<<-2, -8, 3, 5,  -3, 1, 7, 3,  1, 2, -9, 6,  -6, 7, 7, -9>>)
InvertibleExample ==
    Ints(<<6, 4, 4, 4,  5, 5, 7, 6,  4, -9, 3, -7,  9, 1, 7, -6>>)
SingularExample ==
    Ints(<<-4, 2, -2, -3,  9, 6, 2, 6,  0, -5, 1, -5,  0, 0, 0, 0>>)
InverseMulA ==
    Ints(<<3, -9, 7, 3,  3, -8, 2, -9,  -4, 4, 4, 1,  -6, 5, -1, 1>>)
InverseProductB ==
    Ints(<<8, 2, 2, 2,  3, -1, 7, 0,  7, 0, 5, 4,  6, -2, 0, 5>>)

Diag(x, y, z, w) ==
    [i \in 0..15 |-> IF i = 0 THEN x ELSE IF i = 5 THEN y
                     ELSE IF i = 10 THEN z ELSE IF i = 15 THEN w ELSE Z(0)]

\* a finite value whose square is beyond F64_MAX
BIG == 2 ^ 9

\* matrices at the edges of f64: a determinant that overflows, one that
\* cancels after overflowing, a zero row above overflowing cofactors, a
\* determinant below EPSILON, a non-finite element
Overflowing == Diag(Z(BIG), Z(BIG), Z(1), Z(1))
Cancelling == [Overflowing EXCEPT ![1] = Z(BIG), ![4] = Z(BIG)]
Tiny == Diag(Q(1, 1000), Q(1, 1000), Z(1), Z(1))
ZeroTop ==
    Ints(<<0, 0, 0, 0,  BIG, 0, 0, 0,  0, BIG, 0, 0,  0, 0, 1, 0>>)
WithInfinity == [IDENTITY EXCEPT ![0] = PosInf]
WithNaN == [IDENTITY EXCEPT ![6] = NaN]

\* Matrix::new on small integers around the test matrices
VariedMatrices ==
    { [DetExample EXCEPT ![1] = Z(x), ![11] = Z(y), ![12] = Z(z)] :
        x \in -MaxEntry..MaxEntry, y \in -MaxEntry..MaxEntry,
        z \in -MaxEntry..MaxEntry }
    \cup { [SingularExample EXCEPT ![2] = Z(x), ![15] = Z(y)] :
        x \in -MaxEntry..MaxEntry, y \in -MaxEntry..MaxEntry }

DetMatrices ==
    VariedMatrices
    \cup {IDENTITY, DetExample, InvertibleExample, SingularExample,
          InverseMulA, InverseProductB}
    \cup {Overflowing, Cancelling, ZeroTop, Tiny, WithInfinity, WithNaN}

InitDet ==
    /\ IdleKernel
    /\ opa \in DetMatrices
    /\ opb \in {InverseMulA, DetExample}
    /\ opc = <<>>
    /\ call = [op |-> "none"]

CallDeterminant ==
    /\ call.op = "none"
    /\ call' = [op |-> "determinant", val |-> determinant(opa)]
    /\ UNCHANGED <<kernelVars, opa, opb, opc>>

CallIsInvertible ==
    /\ call.op = "none"
    /\ call' = [op |-> "is_invertible", val |-> is_invertible(opa)]
    /\ UNCHANGED <<kernelVars, opa, opb, opc>>

CallInverse ==
    /\ call.op = "none"
    /\ call' = [op |-> "inverse", val |-> inverse(opa)]
    /\ UNCHANGED <<kernelVars, opa, opb, opc>>

NextDet == CallDeterminant \/ CallIsInvertible \/ CallInverse

SpecDet == InitDet /\ [][NextDet]_vars

\* the permutations of 0..3 and their signs
Perms4 == { p \in [0..3 -> 0..3] : \A i, j \in 0..3 : i # j => p[i] # p[j] }
Inversions(p) ==
    Cardinality({ ij \in (0..3) \X (0..3) : ij[1] < ij[2] /\ p[ij[1]] > p[ij[2]] })

LeibnizTerm(m, p) ==
    LET prod == FMul(FMul(FMul(m[p[0]], m[4 + p[1]]), m[8 + p[2]]), m[12 + p[3]])
    IN  IF Inversions(p) % 2 = 1 THEN FNeg(prod) ELSE prod

RECURSIVE SumOver(_, _)
SumOver(m, ps) ==
    IF ps = {} THEN Z(0)
    ELSE LET p == CHOOSE q \in ps : TRUE
         IN  FAdd(LeibnizTerm(m, p), SumOver(m, ps \ {p}))

\* the determinant as the signed sum over permutations
Leibniz(m) == SumOver(m, Perms4)

\* the expansion along row 0 written with minors and explicit signs
Row0Expansion(m) ==
    FAdd(FAdd(FAdd(FAdd(Z(0), FMul(m[0], minor4(m, 0, 0))),
                   FMul(m[1], FNeg(minor4(m, 0, 1)))),
              FMul(m[2], minor4(m, 0, 2))),
         FMul(m[3], FNeg(minor4(m, 0, 3))))

AllFinite(m) == \A i \in DOMAIN m : IsFinite(m[i])

\* C12: for every matrix M (of finite elements) that is_invertible() accepts,
\* inverse() holds cofactor(M,row,col) / determinant(M) at (col,row),
\* M.inverse() * M and M * M.inverse() equal the identity under epsilon
\* equality, and (A * M) * M.inverse() == A.
C12_InverseIdentity ==
    (call.op = "inverse" /\ AllFinite(opa) /\ is_invertible(opa)) =>
        /\ \A row \in 0..3, col \in 0..3 :
              call.val[col * 4 + row]
                  = FDiv(cofactor4(opa, row, col), determinant(opa))
        /\ MatrixEq(MatrixMul(call.val, opa), identity)
        /\ MatrixEq(MatrixMul(opa, call.val), identity)
        /\ MatrixEq(MatrixMul(MatrixMul(opb, opa), call.val), opb)

HasZeroRow(m) == \E row \in 0..3 : \A col \in 0..3 : IsZero(m[row * 4 + col])

\* C13: is_invertible() is true exactly when determinant() is not exactly
\* zero; a determinant that is nonzero but below EPSILON in magnitude gives
\* true, and a matrix (of finite elements) with an all-zero row gives false.
C13_InvertibleIffNonzero ==
    call.op = "is_invertible" =>
        /\ call.val = ~IsZero(determinant(opa))
        /\ (~IsZero(determinant(opa)) /\ float_eq(determinant(opa), Z(0)))
              => call.val
        /\ (AllFinite(opa) /\ HasZeroRow(opa)) => ~call.val

-----------------------------------------------------------------------------
(* Transforming a tuple: Matrix * Vector and Matrix * Point                 *)

\* the matrix of tests::mul_vector and tests::mul_point
TransformExample ==
    Ints(<<1, 2, 3, 4,  2, 4, 4, 2,  8, 6, 4, 1,  0, 0, 0, 1>>)

\* the example with one element of the linear block, of the translation
\* column and of the bottom row varied; two matrices with non-finite parts
TransformMatrices ==
    { [TransformExample EXCEPT ![1] = Z(x), ![7] = Z(y), ![12] = Z(y)] :
        x \in -MaxEntry..MaxEntry, y \in -MaxEntry..MaxEntry }
    \cup {TransformExample,
          [TransformExample EXCEPT ![3] = PosInf, ![15] = NaN],
          [TransformExample EXCEPT ![5] = Z(BIG)]}

\* Vector::new / Point::new arguments
Tuples ==
    { Tuple(Z(x), Z(2), Q(1, 2)) : x \in -MaxEntry..MaxEntry }
    \cup {Tuple(Z(1), Z(2), Z(3)), Tuple(Z(0), Z(BIG), Z(-1)),
          Tuple(Z(1), NegInf, Z(0))}

InitTransform ==
    /\ IdleKernel
    /\ opa \in TransformMatrices
    /\ opb \in Tuples
    /\ opc = <<>>
    /\ call = [op |-> "none"]

CallMulVector ==
    /\ call.op = "none"
    /\ call' = [op |-> "mul_vector", val |-> MatrixMulVector(opa, opb)]
    /\ UNCHANGED <<kernelVars, opa, opb, opc>>

CallMulPoint ==
    /\ call.op = "none"
    /\ call' = [op |-> "mul_point", val |-> MatrixMulPoint(opa, opb)]
    /\ UNCHANGED <<kernelVars, opa, opb, opc>>

NextTransform == CallMulVector \/ CallMulPoint

SpecTransform == InitTransform /\ [][NextTransform]_vars

\* row-major positions of the translation column and of the bottom row
TranslationColumn == {3, 7, 11}
BottomRow == {12, 13, 14, 15}

\* values written over an element to see whether a result depends on it
Probes == {Z(0), Z(7), Q(-1, 2), Z(BIG), PosInf, NaN}

\* M[i,0]*t.x + M[i,1]*t.y + M[i,2]*t.z
LinearPart(m, i, t) ==
    FAdd(FAdd(FMul(m[4 * i], t.x), FMul(m[4 * i + 1], t.y)),
         FMul(m[4 * i + 2], t.z))

\* C14: M * v has components M[i,0]*v.x + M[i,1]*v.y + M[i,2]*v.z and is
\* unchanged by any change of the translation column or of the bottom row.
C14_VectorLinearOnly ==
    call.op = "mul_vector" =>
        /\ call.val = Tuple(LinearPart(opa, 0, opb), LinearPart(opa, 1, opb),
                            LinearPart(opa, 2, opb))
        /\ \A pos \in TranslationColumn \cup BottomRow, t \in Probes :
              MatrixMulVector([opa EXCEPT ![pos] = t], opb) = call.val

\* tests::mul_vector: the example matrix times (1, 2, 3) is (14, 22, 32)
C14_Witness ==
    /\ call.op = "mul_vector"
    /\ opa = TransformExample
    /\ opb = Tuple(Z(1), Z(2), Z(3))
    /\ call.val = Tuple(Z(14), Z(22), Z(32))

\* C15: M * p has components M[i,0]*p.x + M[i,1]*p.y + M[i,2]*p.z + M[i,3]
\* and is unchanged by any change of row 3.
C15_PointAffine ==
    call.op = "mul_point" =>
        /\ call.val = Tuple(FAdd(LinearPart(opa, 0, opb), opa[3]),
                            FAdd(LinearPart(opa, 1, opb), opa[7]),
                            FAdd(LinearPart(opa, 2, opb), opa[11]))
        /\ \A pos \in BottomRow, t \in Probes :
              MatrixMulPoint([opa EXCEPT ![pos] = t], opb) = call.val

\* tests::mul_point: the example matrix times (1, 2, 3) is (18, 24, 33)
C15_Witness ==
    /\ call.op = "mul_point"
    /\ opa = TransformExample
    /\ opb = Tuple(Z(1), Z(2), Z(3))
    /\ call.val = Tuple(Z(18), Z(24), Z(33))

-----------------------------------------------------------------------------
(* Element access: Matrix::get and Matrix::get_mut                          *)

MaxIndex == 5      \* row and col range over 0..MaxIndex and USIZE_MAX
MaxSets == 1       \* writes through get_mut

\* a matrix whose element at position i is i
Numbered == [i \in 0..15 |-> Z(i)]

\* row: usize, col: usize
Indices == (0..MaxIndex) \cup {USIZE_MAX}

InitGet ==
    /\ IdleKernel
    /\ opa \in {Numbered, IDENTITY}
    /\ opb = <<>>
    /\ opc = <<>>
    /\ call = [op |-> "none"]

\* matrix.get(row, col)
MatrixCallGet(row, col) ==
    /\ call' = [op |-> "get", row |-> row, col |-> col,
                fault |-> MatrixFaults(row, col),
                val |-> IF MatrixFaults(row, col) THEN None
                        ELSE Some(MatrixGet(opa, row, col))]
    /\ UNCHANGED <<kernelVars, opa, opb, opc>>

\* *matrix.get_mut(row, col) = value
MatrixCallGetMut(row, col, value) ==
    /\ nwrites < MaxSets
    /\ call' = [op |-> "get_mut", row |-> row, col |-> col,
                fault |-> MatrixFaults(row, col),
                val |-> IF MatrixFaults(row, col) THEN None ELSE Some(value)]
    /\ opa' = IF MatrixFaults(row, col) THEN opa
              ELSE [opa EXCEPT ![MatrixIndex(row, col)] = value]
    /\ nwrites' = IF MatrixFaults(row, col) THEN nwrites ELSE nwrites + 1
    /\ UNCHANGED <<overflow_checks, canvasVars, pc, ret, ppmVars, conv,
                   opb, opc>>

NextGet ==
    \/ \E row \in Indices, col \in Indices : MatrixCallGet(row, col)
    \/ \E row \in Indices, col \in Indices :
          MatrixCallGetMut(row, col, Z(-1))

SpecGet == InitGet /\ [][NextGet]_vars

\* C16: get and get_mut fault (returning nothing) whenever row >= 4 or
\* col >= 4, also when row*4 + col < 16; otherwise get returns and get_mut
\* assigns the element at row-major position row*4 + col, and only that one.
C16_GetBounds ==
    /\ [](call.op \in {"get", "get_mut"} =>
            IF call.row >= 4 \/ call.col >= 4
            THEN call.fault /\ call.val = None
            ELSE ~call.fault
                 /\ call.val = Some(opa[call.row * 4 + call.col]))
    /\ [][/\ call'.op = "get" => opa' = opa
          /\ call'.op = "get_mut" =>
                \A i \in 0..15 :
                    (call'.fault \/ i # call'.row * 4 + call'.col)
                        => opa'[i] = opa[i]]_vars

\* element (2, 3) has been assigned through get_mut, and then get(0, 5)
\* has faulted although 0*4 + 5 < 16
C16_Witness ==
    /\ opa = [Numbered EXCEPT ![11] = Z(-1)]
    /\ call.op = "get"
    /\ call.row = 0
    /\ call.col = 5
    /\ call.fault
    /\ call.val = None

-----------------------------------------------------------------------------
(* Equality: `==` on Point, Vector, Color and Matrix                        *)

MaxSteps == 3      \* compared components reach 1 + MaxSteps * EPSILON / 2

\* 1 + k * EPSILON / 2
Near(k) == FAdd(Z(1), FMul(Q(k, 2), EPSILON))

\* component values: steps of half an EPSILON above 1, zero, non-finite ones
EqScalars == { Near(k) : k \in 0..MaxSteps } \cup {Z(0), PosInf, NaN}

\* a Point or Vector, a Color, a Matrix with first component u and last w
Shapes == {"tuple", "color", "matrix"}
Make(shape, u, w) ==
    IF shape = "tuple" THEN Tuple(u, Z(1), w)
    ELSE IF shape = "color" THEN Color(u, Z(1), w)
    ELSE [IDENTITY EXCEPT ![0] = u, ![15] = w]

\* self == other, by the type of the operands
Eq(self, other) ==
    IF DOMAIN self = {"x", "y", "z"} THEN TupleEq(self, other)
    ELSE IF DOMAIN self = {"r", "g", "b"} THEN ColorEq(self, other)
    ELSE MatrixEq(self, other)

InitEq ==
    /\ IdleKernel
    /\ \E shape \in Shapes, u \in EqScalars, v \in EqScalars,
          w \in EqScalars, t \in EqScalars :
          /\ opa = Make(shape, u, Z(1))
          /\ opb = Make(shape, v, w)
          /\ opc = Make(shape, t, Z(1))
    /\ call = [op |-> "none"]

\* a == b
CallEq ==
    /\ call.op = "none"
    /\ call' = [op |-> "eq", val |-> Eq(opa, opb)]
    /\ UNCHANGED <<kernelVars, opa, opb, opc>>

\* a == a, a == b, b == a, b == c, a == c
CallEqAll ==
    /\ call.op = "none"
    /\ call' = [op |-> "eq_all", aa |-> Eq(opa, opa), ab |-> Eq(opa, opb),
                ba |-> Eq(opb, opa), bc |-> Eq(opb, opc),
                ac |-> Eq(opa, opc)]
    /\ UNCHANGED <<kernelVars, opa, opb, opc>>

NextEq == CallEq \/ CallEqAll

SpecEq == InitEq /\ [][NextEq]_vars

\* the components of a value, in order
Components(v) ==
    IF DOMAIN v = {"x", "y", "z"} THEN <<v.x, v.y, v.z>>
    ELSE IF DOMAIN v = {"r", "g", "b"} THEN <<v.r, v.g, v.b>>
    ELSE [i \in 1..16 |-> v[i - 1]]

\* |x - y| <= 1/100000 for finite x and y, over the integers; a pair with a
\* non-finite member has no difference within the bound
Within(x, y) ==
    /\ IsFinite(x)
    /\ IsFinite(y)
    /\ LET u == (x.d \div gcd(x.d, y.d)) * y.d
       IN  Abs(x.n * (u \div x.d) - y.n * (u \div y.d)) <= u \div 100000

\* C17: a == b holds exactly when every pair of corresponding components
\* differs by at most EPSILON = 1e-5.
C17_EqIffWithinEpsilon ==
    call.op = "eq" =>
        call.val = (\A i \in 1..Len(Components(opa)) :
                        Within(Components(opa)[i], Components(opb)[i]))

\* two matrices whose first elements differ by exactly EPSILON compare
\* equal
C17_Witness ==
    /\ call.op = "eq"
    /\ DOMAIN opa = 0..15
    /\ opa = IDENTITY
    /\ opb = [IDENTITY EXCEPT ![0] = FAdd(Z(1), EPSILON)]
    /\ call.val

HasNaN(v) == \E i \in 1..Len(Components(v)) : Components(v)[i] = NaN

\* C18: epsilon equality is reflexive and symmetric (and, being
\* non-transitive, may hold for a, b and b, c but not a, c); checked on
\* values without NaN components.
C18_ReflexiveSymmetric ==
    (call.op = "eq_all" /\ ~HasNaN(opa) /\ ~HasNaN(opb)) =>
        /\ call.aa
        /\ call.ab = call.ba

-----------------------------------------------------------------------------
(* Products of matrices                                                     *)

\* the matrices of tests::mul and tests::identity
MulA == Ints(<<1, 2, 3, 4,  5, 6, 7, 8,  9, 8, 7, 6,  5, 4, 3, 2>>)
MulB == Ints(<<-2, 1, 2, 3,  3, 2, 1, -1,  4, 3, 6, 5,  1, 2, 7, 8>>)
MulC == Ints(<<20, 22, 50, 48,  44, 54, 114, 108,  40, 58, 110, 102,
               16, 26, 46, 42>>)
IdentityExample ==
    Ints(<<0, 1, 2, 4,  1, 2, 4, 8,  2, 4, 8, 16,  4, 8, 16, 32>>)

\* scalings by a huge factor and by its reciprocal
Grow == Diag(Z(BIG), Z(BIG), Z(1), Z(1))
Shrink == Diag(Q(1, BIG), Q(1, BIG), Z(1), Z(1))

MulMatrices ==
    { [MulA EXCEPT ![6] = Z(x)] : x \in -MaxEntry..MaxEntry }
    \cup {IDENTITY, MulA, MulB, IdentityExample, Grow, Shrink,
          WithInfinity, WithNaN}

InitMul ==
    /\ IdleKernel
    /\ opa \in MulMatrices
    /\ opb \in MulMatrices
    /\ opc \in MulMatrices
    /\ call = [op |-> "none"]

\* a * b
CallMul ==
    /\ call.op = "none"
    /\ call' = [op |-> "mul", val |-> MatrixMul(opa, opb)]
    /\ UNCHANGED <<kernelVars, opa, opb, opc>>

\* Matrix::identity() * a and a * Matrix::identity()
CallMulIdentity ==
    /\ call.op = "none"
    /\ call' = [op |-> "mul_identity", left |-> MatrixMul(identity, opa),
                right |-> MatrixMul(opa, identity)]
    /\ UNCHANGED <<kernelVars, opa, opb, opc>>

\* (a * b) * c and a * (b * c)
CallMulChain ==
    /\ call.op = "none"
    /\ call' = [op |-> "mul_chain",
                left |-> MatrixMul(MatrixMul(opa, opb), opc),
                right |-> MatrixMul(opa, MatrixMul(opb, opc))]
    /\ UNCHANGED <<kernelVars, opa, opb, opc>>

NextMul == CallMul \/ CallMulIdentity \/ CallMulChain

SpecMul == InitMul /\ [][NextMul]_vars

\* C19 as stated: identity() * M == M and M * identity() == M for every M.
C19_IdentityAll ==
    call.op = "mul_identity" =>
        MatrixEq(call.left, opa) /\ MatrixEq(call.right, opa)

\* C19: identity() * M == M and M * identity() == M for every matrix M
\* whose elements are all finite (the products are then M itself).
C19_IdentityFinite ==
    (call.op = "mul_identity" /\ AllFinite(opa)) =>
        /\ MatrixEq(call.left, opa)
        /\ MatrixEq(call.right, opa)
        /\ call.left = opa
        /\ call.right = opa

\* tests::identity: the example matrix times the identity is the example
C19_Witness ==
    /\ call.op = "mul_identity"
    /\ opa = IdentityExample
    /\ MatrixEq(call.right, IdentityExample)
    /\ MatrixEq(call.left, IdentityExample)

\* the sum over k of A[r,k] * B[k,c], taken in the order k = 0, 1, 2, 3
RowByColumn(m1, m2, r, c) ==
    FAdd(FAdd(FAdd(FMul(m1[4 * r], m2[c]), FMul(m1[4 * r + 1], m2[4 + c])),
              FMul(m1[4 * r + 2], m2[8 + c])),
         FMul(m1[4 * r + 3], m2[12 + c]))

\* C20 as stated: A * B is the row-by-column product, (A * B) * C ==
\* A * (B * C) for all A, B, C (here: all of finite elements), and
\* A * B != B * A for the matrices of tests::mul.
C20_AssociativeAll ==
    /\ call.op = "mul" =>
          /\ \A r \in 0..3, c \in 0..3 :
                call.val[4 * r + c] = RowByColumn(opa, opb, r, c)
          /\ (opa = MulA /\ opb = MulB) =>
                ~MatrixEq(call.val, MatrixMul(opb, opa))
    /\ (call.op = "mul_chain" /\ AllFinite(opa) /\ AllFinite(opb)
            /\ AllFinite(opc)) =>
          MatrixEq(call.left, call.right)

\* C20: A * B is the row-by-column product, A * B != B * A for the matrices
\* of tests::mul, and (A * B) * C == A * (B * C) whenever both sides have
\* only finite elements (no operand is non-finite, no product overflows).
C20_AssociativeFinite ==
    /\ call.op = "mul" =>
          /\ \A r \in 0..3, c \in 0..3 :
                call.val[4 * r + c] = RowByColumn(opa, opb, r, c)
          /\ (opa = MulA /\ opb = MulB) =>
                ~MatrixEq(call.val, MatrixMul(opb, opa))
    /\ (call.op = "mul_chain" /\ AllFinite(call.left)
            /\ AllFinite(call.right)) =>
          MatrixEq(call.left, call.right)

\* tests::mul: A * B is the expected product, and it differs from B * A
C20_Witness ==
    /\ call.op = "mul"
    /\ opa = MulA
    /\ opb = MulB
    /\ call.val = MulC
    /\ ~MatrixEq(call.val, MatrixMul(opb, opa))

-----------------------------------------------------------------------------
(* Transpose, and the inverse of products and transposes                    *)

\* Matrix::transpose: the loop over (row, col) from step k on, writing
\* through get_mut(col, row) what get(row, col) reads
RECURSIVE TransposeLoop(_, _, _)
TransposeLoop(self, matrix, k) ==
    IF k = 16 THEN matrix
    ELSE TransposeLoop(self,
            [matrix EXCEPT ![MatrixIndex(k % 4, k \div 4)] =
                MatrixGet(self, k \div 4, k % 4)],
            k + 1)

\* Matrix::default()
MatrixDefault == [i \in 0..15 |-> Z(0)]

transpose_Copy(self) == [i \in 0..15 |-> MatrixGet(self, i \div 4, i % 4)]
transpose(self) == TransposeLoop(self, MatrixDefault, 0)

\* the matrices of tests::transpose and tests::transpose_inverse
TransposeA ==
    Ints(<<0, 9, 3, 0,  9, 8, 0, 8,  1, 8, 5, 3,  0, 0, 5, 8>>)
TransposeT ==
    Ints(<<0, 9, 1, 0,  9, 8, 8, 0,  3, 0, 5, 5,  0, 8, 3, 8>>)
TransposeInverseExample ==
    Ints(<<-5, 2, 6, -8,  1, -5, 1, 8,  7, 7, -6, -7,  1, -3, 7, 4>>)

\* a scaling, a shear and a translation around the identity; singular when
\* the shear is 2
Sheared ==
    { [IDENTITY EXCEPT ![0] = Z(2), ![1] = Z(x), ![4] = Z(1), ![11] = Z(y)] :
        x \in -MaxEntry..MaxEntry, y \in -MaxEntry..MaxEntry }

LeftMatrices ==
    Sheared
    \cup {IDENTITY, TransposeA, TransposeInverseExample, Grow, WithNaN,
          WithInfinity}

RightMatrices ==
    {IDENTITY, Shrink,
     [IDENTITY EXCEPT ![3] = Z(1), ![7] = Z(-2), ![8] = Z(1)],
     Ints(<<1, 2, 0, 0,  0, 1, 0, -1,  0, 0, 2, 0,  1, 0, 0, 1>>),
     Diag(Z(2), Q(1, 2), Z(-1), Z(1)),
     SingularExample}

InitInverse ==
    /\ IdleKernel
    /\ opa \in LeftMatrices
    /\ opb \in RightMatrices
    /\ opc = <<>>
    /\ call = [op |-> "none"]

\* a.transpose(), and the transpose of that
CallTranspose ==
    /\ call.op = "none"
    /\ call' = [op |-> "transpose", val |-> transpose(opa),
                twice |-> transpose(transpose(opa))]
    /\ UNCHANGED <<kernelVars, opa, opb, opc>>

\* (a * b).inverse() and b.inverse() * a.inverse()
CallInverseProduct ==
    /\ call.op = "none"
    /\ call' = [op |-> "inverse_product",
                left |-> inverse(MatrixMul(opa, opb)),
                right |-> MatrixMul(inverse(opb), inverse(opa))]
    /\ UNCHANGED <<kernelVars, opa, opb, opc>>

\* tests::transpose_inverse: a.inverse().transpose() and
\* a.transpose().inverse()
CallTransposeInverse ==
    /\ call.op = "none"
    /\ call' = [op |-> "transpose_inverse",
                left |-> transpose(inverse(opa)),
                right |-> inverse(transpose(opa))]
    /\ UNCHANGED <<kernelVars, opa, opb, opc>>

NextInverse == CallTranspose \/ CallInverseProduct \/ CallTransposeInverse

SpecInverse == InitInverse /\ [][NextInverse]_vars

\* C21: for all matrices M and N (of finite elements) that is_invertible()
\* accepts, (M * N).inverse() == N.inverse() * M.inverse().
C21_ReverseOrder ==
    (call.op = "inverse_product" /\ AllFinite(opa) /\ AllFinite(opb)
        /\ is_invertible(opa) /\ is_invertible(opb)) =>
        MatrixEq(call.left, call.right)

\* C22: for every matrix M (of finite elements) that is_invertible()
\* accepts, M.transpose().inverse() == M.inverse().transpose().
C22_TransposeInverse ==
    (call.op = "transpose_inverse" /\ AllFinite(opa) /\ is_invertible(opa)) =>
        MatrixEq(call.right, call.left)

\* C23: transpose() returns the matrix whose element (c, r) is element
\* (r, c) of the receiver for all r, c in 0..3, transposing twice gives the
\* original matrix back, and the call leaves the receiver unchanged.
C23_Transpose ==
    /\ [](call.op = "transpose" =>
            /\ \A r \in 0..3, c \in 0..3 :
                  call.val[c * 4 + r] = opa[r * 4 + c]
            /\ call.twice = opa
            /\ opa = TransposeA => call.val = TransposeT)
    /\ [][call'.op = "transpose" => opa' = opa]_vars

\* tests::transpose: the example matrix has been transposed
C23_Witness ==
    /\ call.op = "transpose"
    /\ opa = TransposeA
    /\ call.val = TransposeT
    /\ call.val # opa

-----------------------------------------------------------------------------
(* Cross product (src/vector.rs)                                            *)

\* <Vector as Neg>::neg
VectorNeg(self) == Tuple(FNeg(self.x), FNeg(self.y), FNeg(self.z))

\* Vector::cross
cross(self, rhs) ==
    Tuple(FSub(FMul(self.y, rhs.z), FMul(self.z, rhs.y)),
          FSub(FMul(self.z, rhs.x), FMul(self.x, rhs.z)),
          FSub(FMul(self.x, rhs.y), FMul(self.y, rhs.x)))

\* the unit axis vectors and the vectors of tests::cross
AxisX == Tuple(Z(1), Z(0), Z(0))
AxisY == Tuple(Z(0), Z(1), Z(0))
AxisZ == Tuple(Z(0), Z(0), Z(1))
CrossV1 == Tuple(Z(1), Z(2), Z(3))
CrossV2 == Tuple(Z(2), Z(3), Z(4))
CrossResult == Tuple(Z(-1), Z(2), Z(-1))

\* finite vectors whose products overflow
AlongY == Tuple(Z(0), Z(BIG), Z(0))
AlongZ == Tuple(Z(0), Z(0), Z(BIG))
AlongYZ == Tuple(Z(0), Z(BIG), Z(BIG))

CrossLeft ==
    { Tuple(Z(x), Z(y), Z(z)) :
        x \in -MaxEntry..MaxEntry, y \in -MaxEntry..MaxEntry,
        z \in -MaxEntry..MaxEntry }
    \cup {CrossV1, CrossV2, AlongY, AlongYZ, Tuple(Q(1, 2), Z(-1), Q(3, 4)),
          Tuple(PosInf, Z(1), Z(0)), Tuple(Z(1), NaN, Z(0))}

CrossRight ==
    {AxisX, AxisY, AxisZ, CrossV1, CrossV2, AlongZ, AlongYZ,
     Tuple(Q(-1, 2), Z(2), Q(1, 3)), Tuple(Z(0), NegInf, Z(1))}

InitCross ==
    /\ IdleKernel
    /\ opa \in CrossLeft
    /\ opb \in CrossRight
    /\ opc = <<>>
    /\ call = [op |-> "none"]

\* a.cross(b) and -(b.cross(a))
CallCross ==
    /\ call.op = "none"
    /\ call' = [op |-> "cross", val |-> cross(opa, opb),
                rev |-> VectorNeg(cross(opb, opa))]
    /\ UNCHANGED <<kernelVars, opa, opb, opc>>

NextCross == CallCross

SpecCross == InitCross /\ [][NextCross]_vars

\* C24: for all vectors a and b (of finite components), a.cross(b) ==
\* -(b.cross(a)); and for the unit axis vectors x.cross(y) == z,
\* y.cross(z) == x and z.cross(x) == y.
C24_CrossAnticommutes ==
    (call.op = "cross" /\ AllFinite(opa) /\ AllFinite(opb)) =>
        /\ TupleEq(call.val, call.rev)
        /\ (opa = AxisX /\ opb = AxisY) => TupleEq(call.val, AxisZ)
        /\ (opa = AxisY /\ opb = AxisZ) => TupleEq(call.val, AxisX)
        /\ (opa = AxisZ /\ opb = AxisX) => TupleEq(call.val, AxisY)

-----------------------------------------------------------------------------
(* Construction of a canvas (src/canvas.rs): Canvas::new and                *)
(* Canvas::with_color as calls, with `width * height` computed in the       *)
(* machine word.  Before the call the canvas fields hold an empty           *)
(* placeholder.                                                             *)

\* dimensions handed to the constructors: small ones, and ones whose
\* product leaves the machine word
NewDims == (0..MaxDim) \cup {WORD \div 8, WORD \div 4, USIZE_MAX}

InitNew ==
    /\ overflow_checks \in BOOLEAN
    /\ with_color(0, 0, black)
    /\ IdleRest

\* Canvas { width, height, pixels: vec![color; width * height] }: the
\* product panics under overflow checks and wraps without them
Construct(op, w, hh, color) ==
    /\ IF overflow_checks /\ w * hh > USIZE_MAX
       THEN /\ pc' = "panic"
            /\ call' = [op |-> op, w |-> w, h |-> hh, color |-> color,
                        fault |-> TRUE]
            /\ UNCHANGED canvasVars
       ELSE /\ pc' = pc
            /\ call' = [op |-> op, w |-> w, h |-> hh, color |-> color,
                        fault |-> FALSE]
            /\ width' = w
            /\ height' = hh
            /\ pixels' = VecOf(color, (w * hh) % WORD)
            /\ fill' = color
    /\ UNCHANGED <<overflow_checks, nwrites, ret, ppmVars, conv, opa, opb, opc>>

\* Canvas::new(w, hh)
CallNew(w, hh) ==
    /\ pc = "idle"
    /\ call.op = "none"
    /\ Construct("new", w, hh, Color(F(0), F(0), F(0)))

\* Canvas::with_color(w, hh, color)
CallWithColor(w, hh, color) ==
    /\ pc = "idle"
    /\ call.op = "none"
    /\ Construct("with_color", w, hh, color)

NextNew ==
    \/ \E w \in NewDims, hh \in NewDims : CallNew(w, hh)
    \/ \E w \in NewDims, hh \in NewDims, color \in CanvasColors :
          CallWithColor(w, hh, color)

SpecNew == InitNew /\ [][NextNew]_vars

\* C25: Canvas::new(w, h) yields a canvas with width() = w, height() = h and
\* exactly w*h pixels, every one black (0, 0, 0); Canvas::with_color(w, h, c)
\* yields the same dimensions and pixel count with every pixel equal to c.
C25_Constructed ==
    (call.op \in {"new", "with_color"} /\ ~call.fault) =>
        /\ width = call.w
        /\ height = call.h
        /\ Len(pixels) = call.w * call.h
        /\ \A i \in 1..Len(pixels) : pixels[i] = call.color
        /\ call.op = "new" => call.color = black

-----------------------------------------------------------------------------
(* A product of matrices applied to a point or a vector                     *)

\* is row 3 of the matrix (0, 0, 0, 1)
AffineBottom(m) ==
    m[12] = Z(0) /\ m[13] = Z(0) /\ m[14] = Z(0) /\ m[15] = Z(1)

\* left factors: any matrix (row 3 varied too); right factors: row 3 is
\* (0, 0, 0, 1), but for one matrix
ComposeLeft ==
    { [TransformExample EXCEPT ![1] = Z(x), ![12] = Z(x), ![15] = Z(2)] :
        x \in -MaxEntry..MaxEntry }
    \cup {IDENTITY, Shrink, WithInfinity}

ComposeRight ==
    { [IDENTITY EXCEPT ![0] = Z(2), ![1] = Z(y), ![7] = Z(y), ![9] = Q(1, 2)] :
        y \in -MaxEntry..MaxEntry }
    \cup {TransformExample, Grow, [TransformExample EXCEPT ![12] = Z(1)]}

InitCompose ==
    /\ IdleKernel
    /\ opa \in ComposeLeft
    /\ opb \in ComposeRight
    /\ opc \in Tuples
    /\ call = [op |-> "none"]

\* (a * b) * p and a * (b * p) for the point p
CallComposePoint ==
    /\ call.op = "none"
    /\ call' = [op |-> "compose_point",
                left |-> MatrixMulPoint(MatrixMul(opa, opb), opc),
                right |-> MatrixMulPoint(opa, MatrixMulPoint(opb, opc))]
    /\ UNCHANGED <<kernelVars, opa, opb, opc>>

\* (a * b) * v and a * (b * v) for the vector v
CallComposeVector ==
    /\ call.op = "none"
    /\ call' = [op |-> "compose_vector",
                left |-> MatrixMulVector(MatrixMul(opa, opb), opc),
                right |-> MatrixMulVector(opa, MatrixMulVector(opb, opc))]
    /\ UNCHANGED <<kernelVars, opa, opb, opc>>

NextCompose == CallComposePoint \/ CallComposeVector

SpecCompose == InitCompose /\ [][NextCompose]_vars

\* C26 as stated: for all matrices A and B (here: of finite elements) where
\* row 3 of B is (0, 0, 0, 1), every point p and every vector v (of finite
\* components): (A * B) * p == A * (B * p) and (A * B) * v == A * (B * v).
C26_ComposeAll ==
    (call.op \in {"compose_point", "compose_vector"} /\ AffineBottom(opb)
        /\ AllFinite(opa) /\ AllFinite(opb) /\ AllFinite(opc)) =>
        TupleEq(call.left, call.right)

\* C26: for all matrices A and B where row 3 of B is (0, 0, 0, 1), every
\* point p and every vector v: (A * B) * p == A * (B * p) and
\* (A * B) * v == A * (B * v) whenever both sides have only finite
\* components (no operand is non-finite, no product overflows).
C26_ComposeFinite ==
    (call.op \in {"compose_point", "compose_vector"} /\ AffineBottom(opb)
        /\ AllFinite(call.left) /\ AllFinite(call.right)) =>
        /\ TupleEq(call.left, call.right)
        /\ call.left = call.right

\* the example matrix with row 3 changed, times a scaling, shear and
\* translation, has been applied to the point (1, 2, 3) both ways
C26_Witness ==
    /\ call.op = "compose_point"
    /\ opa = [TransformExample EXCEPT ![1] = Z(1), ![12] = Z(1), ![15] = Z(2)]
    /\ opb = [IDENTITY EXCEPT ![0] = Z(2), ![1] = Z(1), ![7] = Z(1),
                               ![9] = Q(1, 2)]
    /\ opc = Tuple(Z(1), Z(2), Z(3))
    /\ AllFinite(call.left)
    /\ TupleEq(call.left, call.right)
    /\ call.left # MatrixMulPoint(opa, opc)
    /\ call.left # MatrixMulPoint(opb, opc)

====
